---- MODULE Spec2Model ----
(***************************************************************************)
(* The K&R-style boundary-tag allocator of mm_kr_heap.c: blocks with a     *)
(* header and a footer unit, a circular doubly linked free list with the   *)
(* roving head freep, first-fit allocation with split or whole-take,       *)
(* coalescing on release, and growth through the segment provider.         *)
(*                                                                         *)
(* Addresses are counted in Header units: a Header* p of the source is the *)
(* unit index p, its byte address is p * HeaderBytes.  NULL is 0 and lies  *)
(* below every address of the segment, as in C.                            *)
(***************************************************************************)
EXTENDS Integers, FiniteSets, Sequences, TLC

\* ------------------------------------------------------------ platform

\* Width of size_t in bits; sizes are computed modulo 2^SizeBits.
SizeBits == 8

\* sizeof(Header) in bytes.
HeaderBytes == 4

\* mem_pagesize() in bytes.
PageSize == 16

\* Capacity of the segment provider in bytes: mem_sbrk refuses beyond it.
MaxHeapBytes == 32

\* Largest request (in bytes) of the client in the specification Spec.
MaxReq == 9

NULL == 0

ENOMEM == 12

\* mem_heap_lo(), as a unit index.
HeapLoUnit == 1

SizeMod == 2 ^ SizeBits

\* Unit addresses the segment can ever cover.
Units == HeapLoUnit .. (HeapLoUnit + (MaxHeapBytes \div HeaderBytes) - 1)

\* ------------------------------------------------------------ state

VARIABLES
    mem,      \* Units -> [ptr, size]: the Header records of the segment
    freep,    \* the roving head of the free list, or NULL
    brk,      \* size of the segment in bytes (mem_brk - mem_heap_lo)
    errno,    \* the C errno
    ret,      \* the value the last call returned
    aborted,  \* an assert of the allocator failed
    undef,    \* the last call wrote outside the segment (undefined behaviour)
    call,     \* the last call: its operation, its arguments, whether it grew the segment
    live      \* payload pointer -> requested bytes, of the client's live blocks

vars == <<mem, freep, brk, errno, ret, aborted, undef, call, live>>

\* ------------------------------------------------------------ segment provider

mem_heap_lo == HeapLoUnit * HeaderBytes

mem_heapsize(h) == h.brk

mem_heap_hi(h) == mem_heap_lo + h.brk - 1

mem_pagesize == PageSize

\* mem_sbrk(incr) succeeds iff the segment stays within the provider's capacity.
mem_sbrk_ok(h, incr) == h.brk + incr <= MaxHeapBytes

\* ------------------------------------------------------------ block layout

\* The sizing of K&R's allocator, which has no footer: one unit too few.
mm_units_nofooter(nbytes) ==
    (((nbytes + HeaderBytes - 1) % SizeMod) \div HeaderBytes + 1) % SizeMod

mm_units(nbytes) ==
    (((nbytes + 2 * HeaderBytes - 1) % SizeMod) \div HeaderBytes + 1) % SizeMod

mm_bytes(nunits) == (nunits * HeaderBytes) % SizeMod

mm_payload(bp) == bp + 1

mm_block(ap) == ap - 1

mm_footer(m, hp) == hp + m[hp].size - 1

mm_header(m, fp) == fp - m[fp].size + 1

mm_size(m, bp) == m[bp].size

\* Sets the header's size only.
mm_setSize_nofooter(m, bp, size) == [m EXCEPT ![bp].size = size]

mm_setSize(m, bp, size) ==
    LET m1 == [m EXCEPT ![bp].size = size]
    IN  [m1 EXCEPT ![mm_footer(m1, bp)].size = size]

mm_next(m, bp) == m[bp].ptr

mm_setNext(m, bp, next) == [m EXCEPT ![bp].ptr = next]

mm_prev(m, bp) == m[mm_footer(m, bp)].ptr

mm_setPrev(m, bp, prev) == [m EXCEPT ![mm_footer(m, bp)].ptr = prev]

\* Finds no block before bp, whatever the low watermark.
mm_before_none(h, bp) == NULL

mm_before(h, bp) ==
    IF bp * HeaderBytes <= mem_heap_lo THEN NULL
    ELSE mm_header(h.mem, bp - 1)

mm_after(h, bp) ==
    IF (bp + h.mem[bp].size) * HeaderBytes > mem_heap_hi(h) THEN NULL
    ELSE bp + h.mem[bp].size

\* ------------------------------------------------------------ free list

mm_unlink(h, bp) ==
    IF mm_next(h.mem, bp) = bp
    THEN LET m1 == mm_setNext(h.mem, bp, NULL)
             m2 == mm_setPrev(m1, bp, NULL)
         IN  [h EXCEPT !.mem = m2, !.freep = NULL]
    ELSE LET prev == mm_prev(h.mem, bp)
             next == mm_next(h.mem, bp)
             m1 == mm_setNext(h.mem, prev, next)
             m2 == mm_setPrev(m1, next, prev)
             m3 == mm_setNext(m2, bp, NULL)
             m4 == mm_setPrev(m3, bp, NULL)
         IN  [h EXCEPT !.mem = m4]

mm_link(h, bp, pos) ==
    IF pos = NULL
    THEN LET m1 == mm_setNext(h.mem, bp, bp)
             m2 == mm_setPrev(m1, bp, bp)
         IN  [h EXCEPT !.mem = m2, !.freep = bp]
    ELSE LET prev == mm_prev(h.mem, pos)
             m1 == mm_setNext(h.mem, prev, bp)
             m2 == mm_setPrev(m1, bp, prev)
             m3 == mm_setNext(m2, bp, pos)
             m4 == mm_setPrev(m3, pos, bp)
         IN  [h EXCEPT !.mem = m4]

\* ------------------------------------------------------------ release

\* "if (freep == p) freep = mm_prev(p)": lines 286, 357 and 371.
mm_leave(h, p) ==
    IF h.freep = p THEN [h EXCEPT !.freep = mm_prev(h.mem, p)] ELSE h

\* mm_free, lines 359-361: bp takes over the units of the unlinked block
\* pnext after it.
mm_free_absorb(h, bp, pnext) ==
    LET m1 == mm_setSize(h.mem, bp,
                  (mm_size(h.mem, bp) + mm_size(h.mem, pnext)) % SizeMod)
        m2 == mm_setNext(m1, bp, NULL)
        m3 == mm_setPrev(m2, bp, NULL)
    IN  [h EXCEPT !.mem = m3]

\* Leaves the block after bp alone.
mm_free_upper_skip(h, bp) == h

\* mm_free, lines 350-362: merge the block after bp into bp when it is free.
mm_free_upper(h, bp) ==
    IF mm_after(h, bp) # NULL /\ h.mem[mm_after(h, bp)].ptr # NULL
    THEN mm_free_absorb(mm_unlink(mm_leave(h, mm_after(h, bp)), mm_after(h, bp)),
                        bp, mm_after(h, bp))
    ELSE h

\* mm_free, lines 373-377: the unlinked block p before bp takes over the
\* units of bp.
mm_free_extend(h, p, bp) ==
    LET m1 == mm_setSize(h.mem, p,
                  (mm_size(h.mem, p) + mm_size(h.mem, bp)) % SizeMod)
        m2 == mm_setNext(m1, bp, NULL)
        m3 == mm_setPrev(m2, bp, NULL)
        m4 == mm_setNext(m3, p, NULL)
        m5 == mm_setPrev(m4, p, NULL)
    IN  [h EXCEPT !.mem = m5]

\* Links bp in although the block before it has absorbed it.
mm_free_target_stays(h, bp) == bp

\* mm_free, lines 364-380: the block that bp ends up in, which is the block
\* before it when that one is free (line 379), else bp itself.
mm_free_target(h, bp) ==
    IF mm_before(h, bp) # NULL /\ h.mem[mm_before(h, bp)].ptr # NULL
    THEN mm_before(h, bp)
    ELSE bp

\* mm_free, lines 364-380: merge bp into the block before it when it is free.
mm_free_lower(h, bp) ==
    IF mm_before(h, bp) # NULL /\ h.mem[mm_before(h, bp)].ptr # NULL
    THEN mm_free_extend(mm_unlink(mm_leave(h, mm_before(h, bp)), mm_before(h, bp)),
                        mm_before(h, bp), bp)
    ELSE h

\* "freep = mm_prev(bp)": lines 386 and 316.
mm_rove(h, bp) == [h EXCEPT !.freep = mm_prev(h.mem, bp)]

\* Links bp in at freep and makes it the head.
mm_free_insert_athead(h, bp) == [mm_link(h, bp, h.freep) EXCEPT !.freep = bp]

\* mm_free, lines 384-386: link bp in at freep and move freep before it.
mm_free_insert(h, bp) == mm_rove(mm_link(h, bp, h.freep), bp)

\* mm_free, lines 364-386, on the heap h left by the upper merge.
mm_free_tail(h, bp) ==
    mm_free_insert(mm_free_lower(h, bp), mm_free_target(h, bp))

mm_free(h, ap) ==
    IF ap = NULL THEN h
    ELSE IF ~(h.mem[mm_block(ap)].size > 0
              /\ mm_bytes(h.mem[mm_block(ap)].size) <= mem_heapsize(h))
    THEN [h EXCEPT !.aborted = TRUE]
    ELSE IF h.freep = NULL
    THEN LET m1 == mm_setNext(h.mem, mm_block(ap), mm_block(ap))
             m2 == mm_setPrev(m1, mm_block(ap), mm_block(ap))
         IN  [h EXCEPT !.mem = m2, !.freep = mm_block(ap)]
    ELSE mm_free_tail(mm_free_upper(h, mm_block(ap)), mm_block(ap))

\* ------------------------------------------------------------ growth

\* morecore, line 486: "return freep".
morecore_return(h) == [h EXCEPT !.ret = h.freep]

\* morecore, lines 480-486, on the heap h grown by nu units at bp.
morecore_install(h, bp, nu) ==
    morecore_return(
        mm_free([h EXCEPT !.mem = mm_setSize(h.mem, bp, nu)], mm_payload(bp)))

\* Grows by the units asked for, without rounding up to a page.
morecore_exact(h, nu0) ==
    IF ~mem_sbrk_ok(h, mm_bytes(nu0)) THEN [h EXCEPT !.ret = NULL]
    ELSE IF nu0 * HeaderBytes # mm_bytes(nu0)
    THEN [h EXCEPT !.brk = h.brk + mm_bytes(nu0), !.undef = TRUE, !.ret = NULL]
    ELSE morecore_install([h EXCEPT !.brk = h.brk + mm_bytes(nu0)],
                          (mem_heap_lo + h.brk) \div HeaderBytes, nu0)

\* Returns the heap with ret = the block to resume at (freep), or ret = NULL
\* when mem_sbrk refused.  A region smaller than nu units (the byte count
\* wrapped) makes mm_setSize write outside the segment: undef.
morecore(h, nu0) ==
    LET nalloc == mem_pagesize \div HeaderBytes
        nu == IF nu0 < nalloc THEN nalloc ELSE nu0
        nbytes == mm_bytes(nu)
    IN  IF ~mem_sbrk_ok(h, nbytes) THEN [h EXCEPT !.ret = NULL]
        ELSE IF nu * HeaderBytes # nbytes
        THEN [h EXCEPT !.brk = h.brk + nbytes, !.undef = TRUE, !.ret = NULL]
        ELSE morecore_install([h EXCEPT !.brk = h.brk + nbytes],
                              (mem_heap_lo + h.brk) \div HeaderBytes, nu)

\* ------------------------------------------------------------ allocation

\* mm_malloc, line 306: "return mm_payload(p)".
mm_malloc_return(h, p) == [h EXCEPT !.ret = mm_payload(p)]

\* Takes p whole without moving freep off it.
mm_malloc_take_keephead(h, p) == mm_malloc_return(mm_unlink(h, p), p)

\* mm_malloc, lines 283-287: take the block p whole.
mm_malloc_take(h, p) == mm_malloc_return(mm_unlink(mm_leave(h, p), p), p)

\* Splits p without nulling the next link of the allocated tail.
mm_malloc_split_stale(h, p, nunits) ==
    LET prev == mm_prev(h.mem, p)
        next == mm_next(h.mem, p)
        m1 == mm_setSize(h.mem, p, (mm_size(h.mem, p) - nunits) % SizeMod)
        m2 == mm_setPrev(m1, p, prev)
        m3 == mm_setNext(m2, p, next)
        q  == p + mm_size(m3, p)
        m4 == mm_setSize(m3, q, nunits)
        m6 == mm_setPrev(m4, q, NULL)
    IN  [h EXCEPT !.mem = m6, !.freep = prev, !.ret = mm_payload(q)]

\* Splits p and leaves freep on p itself.
mm_malloc_split_headstays(h, p, nunits) ==
    LET prev == mm_prev(h.mem, p)
        next == mm_next(h.mem, p)
        m1 == mm_setSize(h.mem, p, (mm_size(h.mem, p) - nunits) % SizeMod)
        m2 == mm_setPrev(m1, p, prev)
        m3 == mm_setNext(m2, p, next)
        q  == p + mm_size(m3, p)
        m4 == mm_setSize(m3, q, nunits)
        m5 == mm_setNext(m4, q, NULL)
        m6 == mm_setPrev(m5, q, NULL)
    IN  [h EXCEPT !.mem = m6, !.freep = p, !.ret = mm_payload(q)]

\* mm_malloc, lines 288-304: split p and allocate its tail end.
mm_malloc_split(h, p, nunits) ==
    LET prev == mm_prev(h.mem, p)
        next == mm_next(h.mem, p)
        m1 == mm_setSize(h.mem, p, (mm_size(h.mem, p) - nunits) % SizeMod)
        m2 == mm_setPrev(m1, p, prev)
        m3 == mm_setNext(m2, p, next)
        q  == p + mm_size(m3, p)
        m4 == mm_setSize(m3, q, nunits)
        m5 == mm_setNext(m4, q, NULL)
        m6 == mm_setPrev(m5, q, NULL)
    IN  [h EXCEPT !.mem = m6, !.freep = prev, !.ret = mm_payload(q)]

\* mm_malloc, lines 312-315: "errno = ENOMEM; return NULL".
mm_malloc_fail(h) == [h EXCEPT !.errno = ENOMEM, !.ret = NULL]

RECURSIVE mm_malloc_scan(_, _, _)

\* mm_malloc, lines 311-317, on the heap r that morecore returned: resume
\* the traversal after the block r.ret.
mm_malloc_wrapped(r, nunits) ==
    IF r.undef \/ r.aborted THEN r
    ELSE IF r.ret = NULL THEN mm_malloc_fail(r)
    ELSE mm_malloc_scan(mm_rove(r, r.ret), mm_next(r.mem, r.ret), nunits)

\* The traversal without the near fit: a block of nunits + 1 units is split.
RECURSIVE mm_malloc_scan_exact(_, _, _)
mm_malloc_scan_exact(h, p, nunits) ==
    IF h.mem[p].size >= nunits
    THEN IF h.mem[p].size = nunits
         THEN mm_malloc_take(h, p)
         ELSE mm_malloc_split(h, p, nunits)
    ELSE IF p = h.freep
    THEN mm_malloc_wrapped(morecore(h, nunits), nunits)
    ELSE mm_malloc_scan_exact(h, mm_next(h.mem, p), nunits)

\* The traversal with a strict comparison: a block of exactly nunits is
\* passed over.
RECURSIVE mm_malloc_scan_strict(_, _, _)
mm_malloc_scan_strict(h, p, nunits) ==
    IF h.mem[p].size > nunits
    THEN IF h.mem[p].size = (nunits + 1) % SizeMod
         THEN mm_malloc_take(h, p)
         ELSE mm_malloc_split(h, p, nunits)
    ELSE IF p = h.freep
    THEN mm_malloc_wrapped(morecore(h, nunits), nunits)
    ELSE mm_malloc_scan_strict(h, mm_next(h.mem, p), nunits)

\* mm_malloc, lines 280-318: the traversal of the circular list from p.
mm_malloc_scan(h, p, nunits) ==
    IF h.mem[p].size >= nunits
    THEN IF h.mem[p].size = nunits \/ h.mem[p].size = (nunits + 1) % SizeMod
         THEN mm_malloc_take(h, p)
         ELSE mm_malloc_split(h, p, nunits)
    ELSE IF p = h.freep
    THEN mm_malloc_wrapped(morecore(h, nunits), nunits)
    ELSE mm_malloc_scan(h, mm_next(h.mem, p), nunits)

\* mm_malloc, lines 274-280: "freep = p", then the traversal from its next.
mm_malloc_from(h, p, nunits) ==
    mm_malloc_scan([h EXCEPT !.freep = p], mm_next(h.mem, p), nunits)

\* Returns NULL on an empty list that cannot grow without setting errno.
mm_malloc_seeded_noerrno(r, nunits) ==
    IF r.undef \/ r.aborted THEN r
    ELSE IF r.ret = NULL THEN [r EXCEPT !.ret = NULL]
    ELSE mm_malloc_from(r, r.ret, nunits)

\* mm_malloc, lines 269-275, on the heap r that morecore returned for an
\* empty list.
mm_malloc_seeded(r, nunits) ==
    IF r.undef \/ r.aborted THEN r
    ELSE IF r.ret = NULL THEN mm_malloc_fail(r)
    ELSE mm_malloc_from(r, r.ret, nunits)

\* Starts the traversal at freep itself.
mm_malloc_fromhead(h, nbytes) ==
    IF h.freep = NULL
    THEN mm_malloc_seeded(morecore(h, mm_units(nbytes)), mm_units(nbytes))
    ELSE mm_malloc_scan(h, h.freep, mm_units(nbytes))

mm_malloc(h, nbytes) ==
    IF h.freep = NULL
    THEN mm_malloc_seeded(morecore(h, mm_units(nbytes)), mm_units(nbytes))
    ELSE mm_malloc_scan(h, mm_next(h.mem, h.freep), mm_units(nbytes))

\* mm_realloc, lines 425-432, on the heap h1 that mm_malloc returned.
mm_realloc_move(h1, ap) ==
    IF h1.undef \/ h1.aborted \/ h1.ret = NULL THEN h1
    ELSE [mm_free(h1, ap) EXCEPT !.ret = h1.ret]

\* Moves the block whatever its size.
mm_realloc_always(h, ap, newsize) ==
    IF ap = NULL THEN mm_malloc(h, newsize)
    ELSE mm_realloc_move(mm_malloc(h, newsize), ap)

mm_realloc(h, ap, newsize) ==
    IF ap = NULL THEN mm_malloc(h, newsize)
    ELSE IF newsize > 0 /\ h.mem[mm_block(ap)].size >= mm_units(newsize)
    THEN [h EXCEPT !.ret = ap]
    ELSE mm_realloc_move(mm_malloc(h, newsize), ap)

\* mul_of(a, b, r), line 50: whether a * b overflows size_t.
mul_of(a, b) == a * b >= SizeMod

\* memset(p, 0, nbytes) on the units from p up.  A Header holds ptr in its
\* lower half and size in its upper half, least significant byte first, and
\* every value of the model fits one byte: a field is zero once its first
\* byte is.
mm_memset(m, p, nbytes) ==
    [u \in Units |->
        IF u < p THEN m[u]
        ELSE [ptr  |-> IF nbytes - (u - p) * HeaderBytes >= 1
                       THEN 0 ELSE m[u].ptr,
              size |-> IF nbytes - (u - p) * HeaderBytes >= HeaderBytes \div 2 + 1
                       THEN 0 ELSE m[u].size]]

\* mm_calloc, lines 452-456, on the heap r that mm_malloc returned.  Zeroing
\* past the end of the segment is undefined.
mm_calloc_zero(r, nbytes) ==
    IF r.undef \/ r.aborted \/ r.ret = NULL THEN r
    ELSE IF r.ret * HeaderBytes + nbytes > mem_heap_hi(r) + 1
    THEN [r EXCEPT !.undef = TRUE]
    ELSE [r EXCEPT !.mem = mm_memset(r.mem, r.ret, nbytes)]

mm_calloc(h, count, size) ==
    IF mul_of(count, size) THEN [h EXCEPT !.ret = NULL]
    ELSE mm_calloc_zero(mm_malloc(h, count * size), count * size)

\* mem_reset_brk(): the segment is rolled back to empty.
mem_reset_brk(h) == [h EXCEPT !.brk = 0]

\* Rolls the segment back and leaves freep where it was.
mm_reset_keephead(h) == mem_reset_brk(h)

mm_reset(h) == [mem_reset_brk(h) EXCEPT !.freep = NULL]

\* ------------------------------------------------------------ free memory

\* mm_getfree, lines 537-540: follow next while it points to a higher address.
RECURSIVE mm_getfree_scan(_, _, _)
mm_getfree_scan(m, tmp, res) ==
    IF m[tmp].ptr > tmp
    THEN mm_getfree_scan(m, m[tmp].ptr, (res + m[m[tmp].ptr].size) % SizeMod)
    ELSE res

mm_getfree(h) ==
    IF h.freep = NULL THEN 0
    ELSE mm_bytes(mm_getfree_scan(h.mem, h.freep, h.mem[h.freep].size))

\* ------------------------------------------------------------ the program

\* The allocator's state as the record the operators above work on.
Heap ==
    [mem |-> mem, freep |-> freep, brk |-> brk, errno |-> errno, ret |-> ret,
     aborted |-> aborted, undef |-> undef]

\* What the memory of the provider holds before the allocator writes it:
\* zeroes, or garbage that looks like a link and a size.
Fresh == {[u \in Units |-> [ptr |-> NULL, size |-> 0]],
          [u \in Units |-> [ptr |-> HeapLoUnit, size |-> 1]]}

\* Request sizes of the client: the smallest and the largest byte count of
\* every unit count up to mm_units(MaxReq).
ReqSizes == {n \in 0 .. MaxReq : n % HeaderBytes <= 1}

\* Pointers the client may pass to mm_free and mm_realloc.
Held == DOMAIN live \cup {NULL}

Running == ~aborted /\ ~undef

\* The state after a call that left the heap r; after undefined behaviour the
\* returned value is arbitrary.
Return(r) ==
    /\ mem' = r.mem
    /\ freep' = r.freep
    /\ brk' = r.brk
    /\ errno' = r.errno
    /\ aborted' = r.aborted
    /\ undef' = r.undef
    /\ ret' \in (IF r.undef THEN Units \cup {NULL} ELSE {r.ret})

Drop(f, p) == [q \in DOMAIN f \ {p} |-> f[q]]

Init ==
    /\ mem \in Fresh
    /\ freep = NULL
    /\ brk = 0
    /\ errno = 0
    /\ ret = NULL
    /\ aborted = FALSE
    /\ undef = FALSE
    /\ call = [op |-> "mm_init", p |-> NULL, n |-> 0, grew |-> FALSE]
    /\ live = <<>>

\* The client's view after mm_malloc(n) left the heap r.
MallocReturn(r, n) ==
    /\ Return(r)
    /\ live' = IF r.ret # NULL /\ ~r.undef /\ ~r.aborted
               THEN (r.ret :> n) @@ live
               ELSE live

Malloc(n) ==
    /\ Running
    /\ MallocReturn(mm_malloc(Heap, n), n)
    /\ call' = [op |-> "mm_malloc", p |-> NULL, n |-> n, grew |-> brk' # brk]

\* The client's view after mm_free(p) left the heap r.
FreeReturn(r, p) ==
    /\ Return([r EXCEPT !.ret = NULL])
    /\ live' = IF r.aborted THEN live ELSE Drop(live, p)

Free(p) ==
    /\ Running
    /\ FreeReturn(mm_free(Heap, p), p)
    /\ call' = [op |-> "mm_free", p |-> p,
                n |-> IF p \in DOMAIN live THEN live[p] ELSE 0, grew |-> FALSE]

\* The client's view after mm_realloc(p, n) left the heap r.
ReallocReturn(r, p, n) ==
    /\ Return(r)
    /\ live' = IF r.ret # NULL /\ ~r.undef /\ ~r.aborted
               THEN (r.ret :> n) @@ Drop(live, p)
               ELSE live

Realloc(p, n) ==
    /\ Running
    /\ ReallocReturn(mm_realloc(Heap, p, n), p, n)
    /\ call' = [op |-> "mm_realloc", p |-> p, n |-> n, grew |-> brk' # brk]

GetFree ==
    /\ Running
    /\ Return([Heap EXCEPT !.ret = mm_getfree(Heap)])
    /\ live' = live
    /\ call' = [op |-> "mm_getfree", p |-> NULL, n |-> 0, grew |-> FALSE]

\* Arguments of mm_calloc: products within ReqSizes, and products that
\* overflow size_t (to SizeMod exactly, and far beyond it).
CallocArgs ==
    {<<1, 1>>, <<2, HeaderBytes>>, <<0, SizeMod - 1>>,
     <<SizeMod \div 2, 2>>, <<SizeMod - 1, SizeMod - 1>>}

\* The client's view after mm_calloc(count, size) left the heap r.
Calloc(count, size) ==
    /\ Running
    /\ MallocReturn(mm_calloc(Heap, count, size), count * size)
    /\ call' = [op |-> "mm_calloc", p |-> NULL, n |-> count * size,
                grew |-> brk' # brk]

\* mm_reset(): every pointer the client holds is invalid afterwards.
Reset ==
    /\ Running
    /\ Return([mm_reset(Heap) EXCEPT !.ret = NULL])
    /\ live' = <<>>
    /\ call' = [op |-> "mm_reset", p |-> NULL, n |-> 0, grew |-> FALSE]

DoMalloc == \E n \in ReqSizes : Malloc(n)

DoCalloc == \E a \in CallocArgs : Calloc(a[1], a[2])

DoFree == \E p \in Held : Free(p)

DoRealloc == \E p \in Held, n \in ReqSizes : Realloc(p, n)

Next == DoMalloc \/ DoFree \/ DoRealloc \/ GetFree \/ DoCalloc

Spec == Init /\ [][Next]_vars

\* ------------------------------------------------------------ observers

\* The first unit address past the segment.
HeapTop == HeapLoUnit + brk \div HeaderBytes

\* The headers met when walking from a by header.size up to the top.
RECURSIVE Walk(_)
Walk(a) ==
    IF a >= HeapTop \/ a \notin Units THEN {}
    ELSE IF mem[a].size < 1 THEN {a}
    ELSE {a} \cup Walk(a + mem[a].size)

Blocks == Walk(HeapLoUnit)

\* The walk from a meets only well-formed blocks and ends exactly at the top.
RECURSIVE WalkEnds(_)
WalkEnds(a) ==
    IF a = HeapTop THEN TRUE
    ELSE IF a > HeapTop THEN FALSE
    ELSE /\ mem[a].size >= 2
         /\ a + mem[a].size <= HeapTop
         /\ mem[a + mem[a].size - 1].size = mem[a].size
         /\ WalkEnds(a + mem[a].size)

RECURSIVE SumSizes(_)
SumSizes(S) ==
    IF S = {} THEN 0
    ELSE LET b == CHOOSE x \in S : TRUE IN mem[b].size + SumSizes(S \ {b})

\* The blocks reached from p by following next.
RECURSIVE Reach(_, _)
Reach(p, seen) ==
    IF p = NULL \/ p \in seen \/ p \notin Units THEN seen
    ELSE Reach(mem[p].ptr, seen \cup {p})

FreeList == Reach(freep, {})

Next_(b) == mem[b].ptr

Prev_(b) ==
    IF mem[b].size >= 1 /\ b + mem[b].size - 1 \in Units
    THEN mem[b + mem[b].size - 1].ptr
    ELSE NULL

\* The blocks the client does not hold.
Unheld == {b \in Blocks : mm_payload(b) \notin DOMAIN live}

\* Byte addresses of the n bytes at payload pointer p, and of unit u.
PayloadBytes(p, n) == (p * HeaderBytes) .. (p * HeaderBytes + n - 1)

UnitBytes(u) == (u * HeaderBytes) .. ((u + 1) * HeaderBytes - 1)

\* ------------------------------------------------------------ wide requests

\* Request sizes at both ends of the range of size_t: those of ReqSizes, and
\* the smallest and the largest byte count of every unit count that
\* mm_units wraps to.
WideSizes ==
    ReqSizes \cup {n \in (SizeMod - 3 * HeaderBytes) .. (SizeMod - 1) :
                     n % HeaderBytes <= 1}

\* Every block of the segment has a header and a footer of its own.  A
\* request whose unit count wrapped to 1 leaves a heap where this fails, and
\* the calls that follow it are not modelled.
TwoTagBlocks == \A b \in Blocks : mem[b].size >= 2

DoMallocWide == TwoTagBlocks /\ \E n \in WideSizes : Malloc(n)

DoFreeWide == TwoTagBlocks /\ \E p \in Held : Free(p)

NextWide == DoMallocWide \/ DoFreeWide

\* The allocator under allocate and release calls of any size.
SpecWide == Init /\ [][NextWide]_vars

\* ------------------------------------------------------------ reset

\* Request sizes in whole units: the smallest byte count of every unit count
\* up to mm_units(MaxReq).
CoarseSizes == {n \in ReqSizes : n % HeaderBytes = 0}

DoMallocCoarse == \E n \in CoarseSizes : Malloc(n)

NextReset == DoMallocCoarse \/ DoFree \/ Reset

\* The allocator under allocate, release and reset calls: after a reset the
\* memory keeps the blocks and links written before it.
SpecReset == Init /\ [][NextReset]_vars

\* ------------------------------------------------------------ sizing

\* Every value of size_t.
SizeRange == 0 .. (SizeMod - 1)

\* mm_units(n) as mm_malloc computes it at line 266, for a request of n
\* bytes; the heap is left alone.
UnitsOf(n) ==
    /\ Running
    /\ Return([Heap EXCEPT !.ret = mm_units(n)])
    /\ live' = live
    /\ call' = [op |-> "mm_units", p |-> NULL, n |-> n, grew |-> FALSE]

DoUnits == \E n \in SizeRange : UnitsOf(n)

\* The sizing of a request of any size.
SpecUnits == Init /\ [][DoUnits]_vars

\* ------------------------------------------------------------ claims

\* C1: after every allocate or release call, no two physically adjacent
\* blocks of the segment are both on the free list.
C1_NoAdjacentFree ==
    \A b \in Blocks :
        LET a == b + mem[b].size IN
        a \in Blocks => ~(b \in FreeList /\ a \in FreeList)

\* A release has merged the freed block into its lower neighbour while
\* another free block stays apart from the result.
C1_Witness ==
    /\ call.op = "mm_free"
    /\ call.p # NULL
    /\ mm_block(call.p) \notin Blocks
    /\ Cardinality(FreeList) >= 2
    /\ Cardinality(Blocks) >= 3

\* C2: after every allocate or release call the free list is a well-formed
\* circular doubly linked list: next(prev(B)) = B and prev(next(B)) = B for
\* every member B; freep is null exactly when no block is free, and otherwise
\* freep is a member from which every free block is reached by next.
C2_ListWellFormed ==
    /\ \A b \in FreeList :
          /\ b \in Blocks
          /\ Prev_(b) \in FreeList
          /\ Next_(b) \in FreeList
          /\ Next_(Prev_(b)) = b
          /\ Prev_(Next_(b)) = b
    /\ (freep = NULL) <=> (Unheld = {})
    /\ freep # NULL => (freep \in Blocks /\ Unheld \subseteq FreeList)

\* Two free blocks are linked, and the roving head is the upper one.
C2_Witness ==
    /\ Cardinality(FreeList) >= 2
    /\ \E b \in FreeList : b < freep
    /\ call.op = "mm_malloc"
    /\ ret # NULL

\* C3: after every allocate or release call a block is a member of the free
\* list iff its header next link is non-null, and every allocated block has
\* header next = null.
C3_NextDiscriminates ==
    /\ \A b \in Blocks : (b \in FreeList) <=> (mem[b].ptr # NULL)
    /\ \A p \in DOMAIN live :
          /\ mm_block(p) \in Blocks
          /\ mem[mm_block(p)].ptr = NULL

\* Allocated blocks from a whole-take and from a split are live beside a
\* free block.
C3_Witness ==
    /\ Cardinality(DOMAIN live) >= 2
    /\ FreeList # {}
    /\ \E p \in DOMAIN live : \E b \in FreeList : b < mm_block(p)
    /\ \E p \in DOMAIN live : \E b \in FreeList : b > mm_block(p)

C6_CapacityCoversRequest ==
    (call.op = "mm_malloc" /\ ~undef /\ ret # NULL) =>
        /\ mm_block(ret) \in Units
        /\ (mem[mm_block(ret)].size - 2) * HeaderBytes >= call.n

\* C7: once every allocation is released after at least one successful
\* allocate, the free list is exactly one block whose size is the whole
\* segment, and getfree() equals heapsize().
C7_FullCoalescing ==
    (DOMAIN live = {} /\ brk > 0) =>
        /\ FreeList = {HeapLoUnit}
        /\ Blocks = {HeapLoUnit}
        /\ mem[HeapLoUnit].size * HeaderBytes = brk
        /\ mm_getfree(Heap) = mem_heapsize(Heap)

\* The last allocation of a segment grown twice has been released.
C7_Witness ==
    /\ call.op = "mm_free"
    /\ call.p # NULL
    /\ DOMAIN live = {}
    /\ brk > PageSize

\* C8: getfree() returns the sum of the sizes in bytes of the blocks on the
\* free list, and 0 when the list is empty, wherever freep stands and
\* whatever the address order of the list.
C8_GetFreeIsTotal ==
    call.op = "mm_getfree" => ret = SumSizes(FreeList) * HeaderBytes

\* Some free block holds at least mm_units(n) units.
Fits(n) == \E b \in FreeList : mem[b].size >= mm_units(n)

\* C9: allocate(n) extends the segment only if no block of the free list has
\* mm_units(n) units or more; when one has, the request is served from the
\* free list and the segment size is unchanged.
C9_GrowOnlyOnMiss ==
    [][call'.op = "mm_malloc" =>
          LET n == call'.n IN
          /\ brk' # brk => ~Fits(n)
          /\ Fits(n) =>
                /\ brk' = brk
                /\ ret' # NULL
                /\ \E c \in FreeList :
                      /\ mem[c].size >= mm_units(n)
                      /\ c <= mm_block(ret')
                      /\ mm_block(ret') + mm_units(n) <= c + mem[c].size]_vars

\* An allocate was served from the free list of a segment of two pages
\* without growing it.
C9_Witness ==
    /\ call.op = "mm_malloc"
    /\ ~call.grew
    /\ ret # NULL
    /\ brk > PageSize
    /\ FreeList # {}

\* The provider refuses the growth allocate(n) would ask for.
Refuses(n) ==
    LET nalloc == mem_pagesize \div HeaderBytes
        nu == IF mm_units(n) < nalloc THEN nalloc ELSE mm_units(n)
    IN  ~Fits(n) /\ ~mem_sbrk_ok(Heap, mm_bytes(nu))

\* reallocate(p, n) has to move the block of p.
Relocates(p, n) ==
    p # NULL /\ ~(n > 0 /\ mem[mm_block(p)].size >= mm_units(n))

\* C10: when the provider refuses to grow, allocate returns null and sets
\* errno to ENOMEM, and the segment size, every block's size and links, the
\* free list and freep are as before the call; a reallocate that has to move
\* the block likewise returns null and leaves the old block allocated.
C10_FailureLeavesState ==
    [][/\ (call'.op = "mm_malloc" /\ Refuses(call'.n)) =>
             /\ ret' = NULL
             /\ errno' = ENOMEM
             /\ UNCHANGED <<mem, freep, brk, live>>
       /\ (call'.op = "mm_realloc" /\ Relocates(call'.p, call'.n)
               /\ Refuses(call'.n)) =>
             /\ ret' = NULL
             /\ errno' = ENOMEM
             /\ UNCHANGED <<mem, freep, brk, live>>
             /\ call'.p \in DOMAIN live']_vars

\* An allocate failed on a segment that holds both free and allocated
\* blocks.
C10_Witness ==
    /\ call.op = "mm_malloc"
    /\ ret = NULL
    /\ errno = ENOMEM
    /\ FreeList # {}
    /\ DOMAIN live # {}

\* The block of p holds at least mm_units(n) units.
Holds(p, n) == p # NULL /\ mem[mm_block(p)].size >= mm_units(n)

ZeroMem == [u \in Units |-> [ptr |-> NULL, size |-> 0]]

\* The units that hold a boundary tag of the heap h: the header and the
\* footer of every block up to its top.
RECURSIVE TagsOf(_, _)
TagsOf(h, a) ==
    IF a * HeaderBytes > mem_heap_hi(h) \/ a \notin Units \/ h.mem[a].size < 1
    THEN {}
    ELSE {a, mm_footer(h.mem, a)} \cup TagsOf(h, a + h.mem[a].size)

\* The heap r is what the state after the step shows: same segment, same
\* freep, same returned pointer, same boundary tags.
SameOutcome(r) ==
    /\ brk' = r.brk
    /\ freep' = r.freep
    /\ ret' = r.ret
    /\ \A u \in TagsOf(r, HeapLoUnit) : mem'[u] = r.mem[u]

\* C12: after reset() in any reachable state freep is null, getfree() is 0
\* and the segment is empty; a following allocate(n) behaves as on a freshly
\* initialised allocator whatever blocks and links the memory still holds:
\* it grows from the low watermark and, when mm_units(n) + 2 fits a page,
\* leaves one free block of the page's units less mm_units(n) and an
\* allocated block of mm_units(n) units.
C12_ResetIsFresh ==
    [][/\ call'.op = "mm_reset" =>
             /\ freep' = NULL
             /\ brk' = 0
             /\ mm_getfree([Heap EXCEPT !.freep = freep', !.mem = mem',
                                        !.brk = brk']) = 0
             /\ mem' = mem
       /\ (call.op = "mm_reset" /\ call'.op = "mm_malloc") =>
             LET u == mm_units(call'.n)
                 pu == mem_pagesize \div HeaderBytes
             IN  /\ SameOutcome(mm_malloc([Heap EXCEPT !.mem = ZeroMem], call'.n))
                 /\ ret' # NULL
                 /\ ret' <= HeapLoUnit + brk' \div HeaderBytes
                 /\ brk' = HeaderBytes * (IF u < pu THEN pu ELSE u)
                 /\ u + 2 <= pu =>
                       /\ freep' = HeapLoUnit
                       /\ mem'[HeapLoUnit] = [ptr |-> HeapLoUnit, size |-> pu - u]
                       /\ mem'[HeapLoUnit + pu - u - 1] =
                              [ptr |-> HeapLoUnit, size |-> pu - u]
                       /\ ret' = mm_payload(HeapLoUnit + pu - u)
                       /\ mem'[HeapLoUnit + pu - u] = [ptr |-> NULL, size |-> u]
                       /\ mem'[HeapLoUnit + pu - 1] = [ptr |-> NULL, size |-> u]
      ]_vars

\* A reset has emptied a segment of two pages whose memory still holds a
\* free list of two blocks, one of them above the first page.
C12_Witness ==
    /\ call.op = "mm_reset"
    /\ brk = 0
    /\ \E a, b \in Units :
          /\ a < b
          /\ b > HeapLoUnit + PageSize \div HeaderBytes
          /\ mem[a].size >= 2
          /\ mem[b].size >= 2
          /\ mem[a].ptr = b
          /\ mem[b].ptr = a

\* C13: for every request of b bytes the number of units reserved is
\* (b + 2*H - 1) / H + 1, H the header size in bytes, and this is at least
\* 2 units.  The quotient is the one of the source, which rounds down: it is
\* the reading under which the minimum is 2 units (b = 0).
C13_UnitsFormula ==
    call.op = "mm_units" =>
        /\ ret = (call.n + 2 * HeaderBytes - 1) \div HeaderBytes + 1
        /\ ret >= 2

\* C14: when count * elem_size overflows size_t, allocate_zeroed returns
\* null with errno set to ENOMEM, the provider is not called, and the
\* segment, the free list and freep are as before.
C14_CallocOverflow ==
    [][(call'.op = "mm_calloc" /\ call'.n >= SizeMod) =>
          /\ ret' = NULL
          /\ errno' = ENOMEM
          /\ UNCHANGED <<mem, freep, brk, live>>]_vars

\* The free list from p on in the order of next, up to and including freep.
RECURSIVE CycleFrom(_, _)
CycleFrom(p, seen) ==
    IF p = freep \/ p \in seen \/ p \notin Units THEN <<p>>
    ELSE <<p>> \o CycleFrom(mem[p].ptr, seen \cup {p})

\* The order in which an allocate examines the free list: next(freep),
\* next(next(freep)), ..., freep.
ScanOrder == IF freep = NULL THEN <<>> ELSE CycleFrom(mem[freep].ptr, {})

\* The first block of ScanOrder with at least u units.
FirstFit(u) ==
    LET i == CHOOSE i \in 1 .. Len(ScanOrder) :
                 /\ mem[ScanOrder[i]].size >= u
                 /\ \A j \in 1 .. (i - 1) : mem[ScanOrder[j]].size < u
    IN  ScanOrder[i]

\* C15: when the free list holds a block of at least mm_units(n) units,
\* allocate(n) allocates from the first such block in the order
\* next(freep), next(next(freep)), ..., freep, with freep as it is when the
\* call starts.
C15_FirstFit ==
    [][(call'.op = "mm_malloc" /\ Fits(call'.n)) =>
          LET c == FirstFit(mm_units(call'.n)) IN
          /\ ret' # NULL
          /\ c <= mm_block(ret')
          /\ mm_block(ret') + mem'[mm_block(ret')].size = c + mem[c].size
          /\ \A b \in FreeList \ {c} : mem'[b].size = mem[b].size]_vars

\* An allocate was served from the free list while another free block,
\* apart from the one it was served from, also had room for it.
C15_Witness ==
    /\ call.op = "mm_malloc"
    /\ ~call.grew
    /\ ret # NULL
    /\ \E b \in FreeList :
          /\ mem[b].size >= mm_units(call.n)
          /\ b + mem[b].size # mm_block(ret)

\* The block that ends at the top of the segment, NULL for an empty segment.
TopBlock == IF brk = 0 THEN NULL ELSE mm_header(mem, HeapTop - 1)

\* The units morecore asks the provider for on a request of u units.
GrowUnits(u) ==
    IF u < mem_pagesize \div HeaderBytes THEN mem_pagesize \div HeaderBytes ELSE u

\* The free block an allocate of u units chooses: the first fit of the free
\* list, or else the block that growth installs, which begins at the free
\* top block when there is one and at the old top otherwise.
Chosen(u) ==
    IF \E b \in FreeList : mem[b].size >= u THEN FirstFit(u)
    ELSE IF TopBlock \in FreeList THEN TopBlock
    ELSE HeapTop

ChosenSize(u) ==
    IF \E b \in FreeList : mem[b].size >= u THEN mem[FirstFit(u)].size
    ELSE IF TopBlock \in FreeList THEN mem[TopBlock].size + GrowUnits(u)
    ELSE GrowUnits(u)

\* C16: for the chosen free block C and a request of u units: if C.size is
\* u or u + 1, C is removed whole from the free list and returned with its
\* size unchanged, so that a list holding only C becomes empty; otherwise C
\* is split, the returned block is the upper u units at C + (C.size - u),
\* and the residual free block has C.size - u >= 2 units.
C16_TakeOrSplit ==
    [][(call'.op = "mm_malloc" /\ ret' # NULL /\ ~undef') =>
          LET u == mm_units(call'.n)
              c == Chosen(u)
              s == ChosenSize(u)
          IN  IF s = u \/ s = u + 1
              THEN /\ ret' = mm_payload(c)
                   /\ mem'[c].size = s
                   /\ mem'[c + s - 1].size = s
                   /\ mem'[c].ptr = NULL
                   /\ FreeList' = FreeList \ {c}
                   /\ FreeList \subseteq {c} => freep' = NULL
              ELSE /\ ret' = mm_payload(c + (s - u))
                   /\ mem'[c + (s - u)].size = u
                   /\ mem'[c + s - 1].size = u
                   /\ mem'[c].size = s - u
                   /\ mem'[c + (s - u) - 1].size = s - u
                   /\ s - u >= 2
                   /\ FreeList' = FreeList \cup {c}]_vars

\* An allocate took the only free block whole although it had one unit
\* more than asked for, and the list became empty.
C16_Witness ==
    /\ call.op = "mm_malloc"
    /\ ~call.grew
    /\ ret # NULL
    /\ mem[mm_block(ret)].size = mm_units(call.n) + 1
    /\ freep = NULL
    /\ Cardinality(DOMAIN live) >= 2

\* C17: a split leaves the membership and the cyclic order of the free list
\* as they were: the residual block keeps the header address and the next
\* and prev neighbours of the chosen block, every other free block is
\* untouched, and freep becomes the prev neighbour of the residual block,
\* which is the residual itself when it is the only member.
C17_SplitKeepsList ==
    [][(call'.op = "mm_malloc" /\ ret' # NULL /\ ~undef'
           /\ ChosenSize(mm_units(call'.n)) >= mm_units(call'.n) + 2) =>
          LET c == Chosen(mm_units(call'.n)) IN
          /\ c \in FreeList'
          /\ freep' = mem'[c + mem'[c].size - 1].ptr
          /\ FreeList' = {c} => freep' = c
          /\ Fits(call'.n) =>
                /\ FreeList' = FreeList
                /\ freep' = Prev_(c)
                /\ \A b \in FreeList :
                      /\ mem'[b].ptr = mem[b].ptr
                      /\ mem'[b + mem'[b].size - 1].ptr = Prev_(b)
                      /\ b # c =>
                            /\ mem'[b] = mem[b]
                            /\ mem'[b + mem[b].size - 1] = mem[b + mem[b].size - 1]
         ]_vars

\* A split has left its residual block on a list of two members, with
\* freep on the other one.
C17_Witness ==
    /\ call.op = "mm_malloc"
    /\ ~call.grew
    /\ ret # NULL
    /\ mm_block(ret) > HeapLoUnit
    /\ mm_header(mem, mm_block(ret) - 1) \in FreeList
    /\ Cardinality(FreeList) >= 2
    /\ freep # mm_header(mem, mm_block(ret) - 1)

\* The free neighbours of the block b: the block after it and the block
\* before it, when they exist and are on the free list.
UpperFree(b) ==
    IF b + mem[b].size < HeapTop /\ b + mem[b].size \in FreeList
    THEN {b + mem[b].size} ELSE {}

LowerFree(b) ==
    IF b > HeapLoUnit /\ mm_header(mem, b - 1) \in FreeList
    THEN {mm_header(mem, b - 1)} ELSE {}

\* The first block after b, in the order of next of the memory m, that is
\* not in skip.
RECURSIVE SuccOutside(_, _, _, _)
SuccOutside(m, b, skip, fuel) ==
    IF fuel = 0 \/ m[b].ptr \notin Units THEN NULL
    ELSE IF m[b].ptr \in skip THEN SuccOutside(m, m[b].ptr, skip, fuel - 1)
    ELSE m[b].ptr

C19_GrowthAmount ==
    [][(call'.op = "mm_malloc" /\ brk' # brk /\ ~undef') =>
          LET u == mm_units(call'.n)
              r == mm_block(ret')
          IN  /\ brk' = brk + GrowUnits(u) * HeaderBytes
              /\ ret' # NULL
              /\ r + mem'[r].size = HeapLoUnit + brk' \div HeaderBytes
              /\ mem'[r].size \in {u, u + 1}
              /\ IF TopBlock \in FreeList
                  THEN /\ HeapTop \notin FreeList'
                       /\ \/ r = TopBlock
                          \/ /\ TopBlock \in FreeList'
                             /\ TopBlock + mem'[TopBlock].size = r
                             /\ mem'[TopBlock].size + mem'[r].size
                                  = mem[TopBlock].size + GrowUnits(u)
                  ELSE \/ r = HeapTop
                       \/ /\ HeapTop \in FreeList'
                          /\ HeapTop + mem'[HeapTop].size = r
                          /\ mem'[HeapTop].size + mem'[r].size = GrowUnits(u)
         ]_vars

\* An allocate grew the segment by a second page; the free block below the
\* returned block reaches from the first page into the second.
C19_Witness ==
    /\ call.op = "mm_malloc"
    /\ call.grew
    /\ ret # NULL
    /\ brk = 2 * PageSize
    /\ \E c \in FreeList :
          /\ c < HeapLoUnit + PageSize \div HeaderBytes
          /\ c + mem[c].size > HeapLoUnit + PageSize \div HeaderBytes
          /\ c + mem[c].size = mm_block(ret)

\* The last call released a block that allocate(n) had returned, and the
\* block is on the free list as it was, merged with neither neighbour.
ReleasedApart ==
    /\ call.op = "mm_free"
    /\ call.p # NULL
    /\ ~aborted
    /\ mm_block(call.p) \in FreeList
    /\ mem[mm_block(call.p)].size \in {mm_units(call.n), mm_units(call.n) + 1}

\* C20: if a live block obtained from allocate(n) is released while neither
\* of its physical neighbours is free, an immediately following allocate(n)
\* returns the same address, and the total size of the free list after that
\* allocate is the total before the release.
C20_ExactFitReuse ==
    [][(ReleasedApart /\ call'.op = "mm_malloc" /\ call'.n = call.n) =>
          /\ ret' = call.p
          /\ brk' = brk
          /\ SumSizes(FreeList') =
                SumSizes(FreeList) - mem[mm_block(call.p)].size
          /\ FreeList' = FreeList \ {mm_block(call.p)}]_vars

\* A block has been released beside allocated neighbours while another
\* free block has room for the same request.
C20_Witness ==
    /\ ReleasedApart
    /\ \E o \in FreeList \ {mm_block(call.p)} :
          mem[o].size >= mm_units(call.n)
    /\ Cardinality(DOMAIN live) >= 2

====
